---- MODULE Spec2Model ----
(***************************************************************************)
(* Classification and aggregation engine of LujCat/choose.                 *)
(*                                                                         *)
(* The filesystem below <root> is a pair (dirs, files) of sets of paths;   *)
(* a path is a sequence of names and a name is a string.  One run of       *)
(* ImageClassifier.process_directory is the sequence StartRun, Place for   *)
(* every discovered pair, RenamePass, StatsPass.  RenameAgain, StatsAgain   *)
(* and CopyHighCount are calls made on the tree between or after runs.     *)
(***************************************************************************)
EXTENDS Integers, Sequences, FiniteSets, TLC

\* ------------------------------------------------------------------ bounds
MaxRuns == 2      \* runs of process_directory in one behaviour
MaxFaults == 1    \* I/O faults and interrupts injected in one behaviour
MaxPairs == 2     \* discovered (image, folder) pairs
MaxZeros == 2     \* leading zeros put before a subject number

\* ------------------------------------------------------------ strings
Digits == {"0", "1", "2", "3", "4", "5", "6", "7", "8", "9"}

CharAt(s, i) == SubSeq(s, i, i)

\* str.isdigit(): non-empty and every character a digit
IsDigit(s) == Len(s) > 0 /\ \A i \in 1..Len(s) : CharAt(s, i) \in Digits

\* '-' in s
HasHyphen(s) == \E i \in 1..Len(s) : CharAt(s, i) = "-"

DigitChar(d) ==
    CASE d = 0 -> "0" [] d = 1 -> "1" [] d = 2 -> "2" [] d = 3 -> "3"
      [] d = 4 -> "4" [] d = 5 -> "5" [] d = 6 -> "6" [] d = 7 -> "7"
      [] d = 8 -> "8" [] d = 9 -> "9"

DigitVal(c) ==
    CASE c = "0" -> 0 [] c = "1" -> 1 [] c = "2" -> 2 [] c = "3" -> 3
      [] c = "4" -> 4 [] c = "5" -> 5 [] c = "6" -> 6 [] c = "7" -> 7
      [] c = "8" -> 8 [] c = "9" -> 9

\* str(n) for n >= 0
RECURSIVE IntToStr(_)
IntToStr(n) ==
    IF n < 10 THEN DigitChar(n)
    ELSE IntToStr(n \div 10) \o DigitChar(n % 10)

\* int(s) for a string of digits
RECURSIVE StrToInt(_)
StrToInt(s) ==
    IF Len(s) = 1 THEN DigitVal(s)
    ELSE 10 * StrToInt(SubSeq(s, 1, Len(s) - 1)) + DigitVal(CharAt(s, Len(s)))

\* the pieces of s between hyphens, as s.split('-') returns them
RECURSIVE SplitHyphen(_)
SplitHyphen(s) ==
    IF ~HasHyphen(s) THEN <<s>>
    ELSE LET i == CHOOSE k \in 1..Len(s) :
                     /\ CharAt(s, k) = "-"
                     /\ \A j \in 1..(k - 1) : CharAt(s, j) # "-"
         IN  <<SubSeq(s, 1, i - 1)>> \o SplitHyphen(SubSeq(s, i + 1, Len(s)))

\* position of the last hyphen of s (s has one)
LastHyphen(s) ==
    CHOOSE k \in 1..Len(s) :
        /\ CharAt(s, k) = "-"
        /\ \A j \in (k + 1)..Len(s) : CharAt(s, j) # "-"

\* group 1 of '(\d+)', with no '0*' before it
StripZeros_keep(s) == s

\* group 1 of '0*(\d+)': the leading zeros are consumed greedily, but one
\* digit is always left for the group
RECURSIVE StripZeros(_)
StripZeros(s) ==
    IF Len(s) > 1 /\ Head(s) = "0" THEN StripZeros(Tail(s)) ELSE s

\* ------------------------------------------------------- FolderNameParser
\* re.match(r'^0*(\d+)-(\d{4}-\d{2}-\d{2})', name): the time and ordinal
\* parts not required
PatternMatches_loose(folder_name) ==
    LET p == SplitHyphen(folder_name)
    IN  /\ Len(p) >= 4
        /\ IsDigit(p[1])
        /\ IsDigit(p[2]) /\ Len(p[2]) = 4
        /\ \A k \in 3..4 : IsDigit(p[k]) /\ Len(p[k]) = 2

\* re.match(r'^0*(\d+)-(\d{4}-\d{2}-\d{2})-\d{2}-\d{2}-\d{2}-\d+$', name)
PatternMatches(folder_name) ==
    LET p == SplitHyphen(folder_name)
    IN  /\ Len(p) = 8
        /\ IsDigit(p[1])
        /\ IsDigit(p[2]) /\ Len(p[2]) = 4
        /\ \A k \in 3..7 : IsDigit(p[k]) /\ Len(p[k]) = 2
        /\ IsDigit(p[8])

extract_folder_info(folder_name) ==
    IF PatternMatches(folder_name)
    THEN LET p == SplitHyphen(folder_name)
         IN  [ear_number |-> StripZeros(p[1]),
              date_str |-> p[2] \o "-" \o p[3] \o "-" \o p[4]]
    ELSE [ear_number |-> "unknown", date_str |-> "unknown"]

\* ----------------------------------------------------------- ScoreBucketer
\* A confidence c is held as the integer c * ConfUnit.
ConfUnit == 1000
Threshold == 300          \* 0.3

\* ScoreFolder with 'confidence >= 0.3' in place of 'confidence > 0.3'
ScoreFolder_ge(confidence) ==
    IF confidence >= Threshold
    THEN IntToStr((((confidence * 100) \div ConfUnit) \div 10) * 10)
    ELSE "undetected"

\* score = int(confidence * 100); score_folder = str((score // 10) * 10)
ScoreFolder(confidence) ==
    IF confidence > Threshold
    THEN IntToStr((((confidence * 100) \div ConfUnit) \div 10) * 10)
    ELSE "undetected"

\* ------------------------------------------------------------- the state
VARIABLES
    dirs,               \* directories below root
    files,              \* files below root/score
    report,             \* content of root/statistics_report.txt, or "none"
    image_files,        \* the list scan_for_images returns
    ear_folder_counts,  \* FileProcessor.ear_folder_counts
    success_count,      \* process_directory's success_count
    count_stats,        \* what generate_statistics_report returned last
                        \* (the empty map before the first return)
    pc,                 \* "idle", "loop", "rename" or "stats"
    i,                  \* index of the next pair of the placement loop
    run,                \* runs of process_directory started
    faults,             \* I/O faults and interrupts injected so far
    results,            \* target and outcome of each copy_folder call of
                        \* this run
    report_saved,       \* the last report was written to its file
    raised,             \* the exception that left process_directory, or "none"
    new_dirs,           \* directories of root/new, relative to it (<< >>
                        \* is root/new itself)
    new_files,          \* files below root/new, relative to it
    copied,             \* what the last copy_high_count_ears copied
    sidecar_copies,     \* side-car copies made into each cuboid directory
    last,               \* the last operation and what it did
    loopClean,          \* a placement loop completed with no failed copy
                        \* and the tree was not renamed since
    renameClean,        \* a rename pass completed with no rename fault
                        \* and nothing was placed since
    runClean            \* a run completed with no fault at all

vars == <<dirs, files, report, image_files, ear_folder_counts, success_count,
          count_stats, pc, i, run, faults, results, sidecar_copies, last,
          loopClean, renameClean, runClean, report_saved, raised,
          new_dirs, new_files, copied>>

\* ------------------------------------------------------------ PathComposer
\* TargetPath with the subject segment numbered by ear_folder_counts
TargetPath_counter(folder_name, confidence) ==
    LET info == extract_folder_info(folder_name)
        key == info.date_str \o "_" \o info.ear_number
        n == IF key \in DOMAIN ear_folder_counts
             THEN ear_folder_counts[key] ELSE 0
    IN  <<"score", info.date_str, info.ear_number \o "-" \o IntToStr(n + 1),
          ScoreFolder(confidence), folder_name>>

\* os.path.join(root_dir, 'score', date, ear, score_folder, folder_name),
\* kept relative to root_dir
TargetPath(folder_name, confidence) ==
    LET info == extract_folder_info(folder_name)
    IN  <<"score", info.date_str, info.ear_number,
          ScoreFolder(confidence), folder_name>>

\* key = f"{date_str}_{ear_number}"
CounterKey(folder_name) ==
    LET info == extract_folder_info(folder_name)
    IN  info.date_str \o "_" \o info.ear_number

\* ------------------------------------------------------------- the inputs
D1 == "2025-06-21"

\* Source folders root/<sub>/EPCData/<folder> that FileScanner.scan_for_images
\* can discover, each with the confidence ModelManager.detect_image returns
\* for its basicPoint image.
Pool ==
    << [sub |-> "A", folder |-> "00000010-2025-06-21-10-41-09-066", confidence |-> 820],
       [sub |-> "A", folder |-> "00000010-2025-06-21-11-00-00-001", confidence |-> 50],
       [sub |-> "A", folder |-> "00000010-2025-06-21-12-30-00-002", confidence |-> 670],
       [sub |-> "B", folder |-> "00000010-2025-06-21-10-41-09-066", confidence |-> 820],
       [sub |-> "A", folder |-> "000000101-2025-06-22-13-57-51-584", confidence |-> 1000],
       [sub |-> "A", folder |-> "00000010-2025-06-21", confidence |-> 300] >>

\* the elements of Pool at the indices S, in increasing order of index
RECURSIVE PoolSeq(_)
PoolSeq(S) ==
    IF S = {} THEN << >>
    ELSE LET m == CHOOSE k \in S : \A j \in S : k <= j
         IN  <<Pool[m]>> \o PoolSeq(S \ {m})

Scans ==
    {PoolSeq(S) : S \in {T \in SUBSET (1..Len(Pool)) :
                            Cardinality(T) <= MaxPairs}}

\* what every source folder holds, relative to the folder
SrcDirs == {<<"pc">>}
SrcFiles == {<<"basicPoint.jpg">>}

\* ------------------------------------------------------------ filesystem
Exists(D, F, p) == p \in D \/ p \in F

IsDir(D, p) == p \in D

Parent(p) == SubSeq(p, 1, Len(p) - 1)

IsPrefix(b, p) == Len(b) <= Len(p) /\ SubSeq(p, 1, Len(b)) = b

\* os.listdir(p): the names directly inside p
ListDir(D, F, p) ==
    {q[Len(q)] : q \in {x \in D : Len(x) = Len(p) + 1 /\ IsPrefix(p, x)}
                      \cup {x \in F : Len(x) = Len(p) + 1 /\ IsPrefix(p, x)}}

\* the paths below base, relative to base
Below(S, base) ==
    {SubSeq(q, Len(base) + 1, Len(q)) :
        q \in {x \in S : Len(x) > Len(base) /\ IsPrefix(base, x)}}

\* the subsets of the entries of a tree that a copy can have written when
\* it stops: an entry is written only inside a directory already written
Written(sd, sf) ==
    {W \in SUBSET (sd \cup sf) :
        \A r \in W : Len(r) > 1 => Parent(r) \in W}

\* shutil.copytree(src, dst, dirs_exist_ok=True), src holding the directories
\* sd and the files sf; out is what the copy achieves:
\*   [kind |-> "ok"], [kind |-> "nodst"] (fails before dst is created) or
\*   [kind |-> "partial", written |-> W] (dst created, only W copied)
CopyOutcomes(sd, sf) ==
    {[kind |-> "ok"], [kind |-> "nodst"]}
      \cup {[kind |-> "partial", written |-> W] :
               W \in Written(sd, sf) \ {sd \cup sf}}

CopyTree(D, F, sd, sf, dst, out) ==
    LET W == IF out.kind = "ok" THEN sd \cup sf
             ELSE IF out.kind = "partial" THEN out.written ELSE {}
    IN  IF out.kind = "nodst" THEN [dirs |-> D, files |-> F, raised |-> TRUE]
        ELSE [dirs |-> D \cup {dst} \cup {dst \o r : r \in W \cap sd},
              files |-> F \cup {dst \o r : r \in W \cap sf},
              raised |-> out.kind # "ok"]

\* os.makedirs(p, exist_ok=True) that gets as far as creating the ancestors
\* of length <= upto (upto = Len(p): no failure)
MakeDirs(D, p, upto) == D \cup {SubSeq(p, 1, k) : k \in 1..upto}

\* ---------------------------------------------------- AggregationCounter
\* CountFolder that also counts a placement into 'undetected'
CountFolder_all(counts, folder_name, confidence) ==
    LET key == CounterKey(folder_name)
    IN  IF key \in DOMAIN counts
        THEN [counts EXCEPT ![key] = @ + 1]
        ELSE (key :> 1) @@ counts

\* process_image_folder's update of self.ear_folder_counts
CountFolder(counts, folder_name, confidence) ==
    LET key == CounterKey(folder_name)
    IN  IF ScoreFolder(confidence) # "undetected"
        THEN IF key \in DOMAIN counts
             THEN [counts EXCEPT ![key] = @ + 1]
             ELSE (key :> 1) @@ counts
        ELSE counts

\* ------------------------------------------------- HierarchicalCopyEngine
\* date_cuboid_src and ear_cuboid_dst of _copy_cuboid_folder; date_str is
\* target_parts[-4] and ear_number is target_parts[-3]
CuboidSrc(target) == <<"score", target[Len(target) - 3], "cuboid">>

CuboidDst(target) ==
    <<"score", target[Len(target) - 3], target[Len(target) - 2], "cuboid">>

\* CuboidCopies without the test that the destination is absent
CuboidCopies_nocheck(D, F, target) == IsDir(D, CuboidSrc(target))

\* does _copy_cuboid_folder reach its copytree call?
CuboidCopies(D, F, target) ==
    IsDir(D, CuboidSrc(target)) /\ ~Exists(D, F, CuboidDst(target))

\* _copy_cuboid_folder; an exception of the copy is caught inside
copy_cuboid_folder(D, F, target, cout) ==
    IF CuboidCopies(D, F, target)
    THEN LET c == CopyTree(D, F, Below(D, CuboidSrc(target)),
                           Below(F, CuboidSrc(target)),
                           CuboidDst(target), cout)
         IN  [dirs |-> c.dirs, files |-> c.files,
              wrote |-> cout.kind # "nodst"]
    ELSE [dirs |-> D, files |-> F, wrote |-> FALSE]

\* what the main copy of copy_folder can achieve: a copytree outcome, or
\* [kind |-> "mkdirs", upto |-> k]: os.makedirs of the parent fails when it
\* creates the first missing ancestor, the one of length k + 1
MainOutcomes(D, target) ==
    CopyOutcomes(SrcDirs, SrcFiles)
      \cup {[kind |-> "mkdirs", upto |-> k] :
               k \in {j \in 1..(Len(target) - 2) :
                         /\ SubSeq(target, 1, j + 1) \notin D
                         /\ \A m \in 1..j : SubSeq(target, 1, m) \in D}}

\* copy_folder that returns True from its except branch
copy_folder_true(D, F, target, out, cout) ==
    IF Exists(D, F, target)
    THEN [dirs |-> D, files |-> F, ret |-> TRUE, how |-> "skipped", wrote |-> FALSE]
    ELSE IF out.kind = "mkdirs"
    THEN [dirs |-> MakeDirs(D, Parent(target), out.upto), files |-> F,
          ret |-> TRUE, how |-> "failed", wrote |-> FALSE]
    ELSE LET D2 == MakeDirs(D, Parent(target), Len(target) - 1)
             c == CopyTree(D2, F, SrcDirs, SrcFiles, target, out)
         IN  IF c.raised
             THEN [dirs |-> c.dirs, files |-> c.files,
                   ret |-> TRUE, how |-> "failed", wrote |-> FALSE]
             ELSE LET s == copy_cuboid_folder(c.dirs, c.files, target, cout)
                  IN  [dirs |-> s.dirs, files |-> s.files,
                       ret |-> TRUE, how |-> "copied", wrote |-> s.wrote]

\* copy_folder without its 'target exists' check
copy_folder_noskip(D, F, target, out, cout) ==
    IF out.kind = "mkdirs"
    THEN [dirs |-> MakeDirs(D, Parent(target), out.upto), files |-> F,
          ret |-> FALSE, how |-> "failed", wrote |-> FALSE]
    ELSE LET D2 == MakeDirs(D, Parent(target), Len(target) - 1)
             c == CopyTree(D2, F, SrcDirs, SrcFiles, target, out)
         IN  IF c.raised
             THEN [dirs |-> c.dirs, files |-> c.files,
                   ret |-> FALSE, how |-> "failed", wrote |-> FALSE]
             ELSE LET s == copy_cuboid_folder(c.dirs, c.files, target, cout)
                  IN  [dirs |-> s.dirs, files |-> s.files,
                       ret |-> TRUE, how |-> "copied", wrote |-> s.wrote]

\* copy_folder(source_path, target_path)
copy_folder(D, F, target, out, cout) ==
    IF Exists(D, F, target)
    THEN [dirs |-> D, files |-> F, ret |-> TRUE, how |-> "skipped", wrote |-> FALSE]
    ELSE IF out.kind = "mkdirs"
    THEN [dirs |-> MakeDirs(D, Parent(target), out.upto), files |-> F,
          ret |-> FALSE, how |-> "failed", wrote |-> FALSE]
    ELSE LET D2 == MakeDirs(D, Parent(target), Len(target) - 1)
             c == CopyTree(D2, F, SrcDirs, SrcFiles, target, out)
         IN  IF c.raised
             THEN [dirs |-> c.dirs, files |-> c.files,
                   ret |-> FALSE, how |-> "failed", wrote |-> FALSE]
             ELSE LET s == copy_cuboid_folder(c.dirs, c.files, target, cout)
                  IN  [dirs |-> s.dirs, files |-> s.files,
                       ret |-> TRUE, how |-> "copied", wrote |-> s.wrote]

\* ------------------------------------------------------------------- Init
CuboidFile == <<"score", D1, "cuboid", "cuboid.json">>

Init ==
    /\ image_files \in Scans
    /\ \E hasCuboid \in BOOLEAN :
         /\ dirs = IF hasCuboid
                   THEN {SubSeq(CuboidFile, 1, k) : k \in 1..3} ELSE {}
         /\ files = IF hasCuboid THEN {CuboidFile} ELSE {}
    /\ report = "none"
    /\ ear_folder_counts = << >>
    /\ success_count = 0
    /\ count_stats = << >>
    /\ pc = "idle"
    /\ i = 1
    /\ run = 0
    /\ faults = 0
    /\ results = << >>
    /\ sidecar_copies = << >>
    /\ last = "init"
    /\ loopClean = FALSE
    /\ renameClean = FALSE
    /\ runClean = FALSE
    /\ report_saved = FALSE
    /\ raised = "none"
    /\ new_dirs = {}
    /\ new_files = {}
    /\ copied = {}

\* the confidences detect_image returns for the one folder of a
\* single-folder scan, in thousandths: 0.0, the threshold 0.3 and its
\* neighbours, the edges of the buckets, and 1.0
ConfGrid ==
    {0, 1, 50, 299, 300, 301, 310, 399, 400, 499, 500, 699, 700, 899, 900,
     990, 999, 1000}

\* a root with one item folder and no score directory
BucketInit ==
    /\ image_files \in
          {<<[sub |-> "A", folder |-> "00000010-2025-06-21-10-41-09-066",
              confidence |-> c]>> : c \in ConfGrid}
    /\ dirs = {}
    /\ files = {}
    /\ report = "none"
    /\ ear_folder_counts = << >>
    /\ success_count = 0
    /\ count_stats = << >>
    /\ pc = "idle"
    /\ i = 1
    /\ run = 0
    /\ faults = 0
    /\ results = << >>
    /\ sidecar_copies = << >>
    /\ last = "init"
    /\ loopClean = FALSE
    /\ renameClean = FALSE
    /\ runClean = FALSE
    /\ report_saved = FALSE
    /\ raised = "none"
    /\ new_dirs = {}
    /\ new_files = {}
    /\ copied = {}

\* ------------------------------------------------------ process_directory
\* FileProcessor(root_dir), create_score_structure(), scan_for_images();
\* 'if not image_files: return' ends the run when the scan finds nothing
StartRun ==
    /\ pc = "idle"
    /\ run < MaxRuns
    /\ run' = run + 1
    /\ dirs' = dirs \cup {<<"score">>}
    /\ ear_folder_counts' = << >>
    /\ success_count' = 0
    /\ results' = << >>
    /\ i' = 1
    /\ pc' = IF image_files = << >> THEN "idle" ELSE "loop"
    /\ last' = "start"
    /\ report_saved' = FALSE
    /\ raised' = "none"
    /\ UNCHANGED <<new_dirs, new_files, copied>>
    /\ UNCHANGED <<files, report, image_files, count_stats, faults,
                   sidecar_copies, loopClean, renameClean, runClean>>

\* NextPc that leaves the loop after the first pair
NextPc_early(k, n, ok) == "rename"

\* NextPc that leaves the loop when a pair fails
NextPc_abort(k, n, ok) == IF k = n \/ ~ok THEN "rename" ELSE "loop"

\* where process_directory goes after the k-th of n pairs, ok telling
\* whether the pair succeeded: the for loop ends after the last pair, and
\* a failed pair (copy_folder False, or an exception caught by the except
\* branch of the loop body) does not end it
NextPc(k, n, ok) == IF k = n THEN "rename" ELSE "loop"

Bump(f, k) == IF k \in DOMAIN f THEN [f EXCEPT ![k] = @ + 1] ELSE (k :> 1) @@ f

\* one iteration of the placement loop: detect_image, process_image_folder,
\* copy_folder, success_count
Place ==
    /\ pc = "loop"
    /\ \E folder_name \in {image_files[i].folder},
          confidence \in {image_files[i].confidence} :
        \E target_path \in {TargetPath(folder_name, confidence)} :
        \E out \in MainOutcomes(dirs, target_path),
           cout \in CopyOutcomes(Below(dirs, CuboidSrc(target_path)),
                                 Below(files, CuboidSrc(target_path))) :
        \E c \in {copy_folder(dirs, files, target_path, out, cout)},
           nf \in {(IF out.kind # "ok" THEN 1 ELSE 0)
                     + (IF cout.kind # "ok" THEN 1 ELSE 0)} :
          /\ out.kind # "ok" => ~Exists(dirs, files, target_path)
          /\ cout.kind # "ok" =>
                /\ c.how = "copied"
                /\ IsDir(dirs, CuboidSrc(target_path))
                /\ ~Exists(dirs, files, CuboidDst(target_path))
          /\ faults + nf <= MaxFaults
          /\ faults' = faults + nf
          /\ ear_folder_counts' =
                 CountFolder(ear_folder_counts, folder_name, confidence)
          /\ dirs' = c.dirs
          /\ files' = c.files
          /\ success_count' = IF c.ret THEN success_count + 1
                              ELSE success_count
          /\ results' = Append(results, [how |-> c.how, ret |-> c.ret,
                                          target |-> target_path])
          /\ sidecar_copies' =
                 IF c.wrote THEN Bump(sidecar_copies, CuboidDst(target_path))
                 ELSE sidecar_copies
          /\ renameClean' = (renameClean /\ c.how = "skipped")
          /\ loopClean' =
                 IF i = Len(image_files)
                 THEN c.ret /\ \A k \in 1..Len(results) : results[k].ret
                 ELSE loopClean
    /\ i' = i + 1
    /\ pc' = NextPc(i, Len(image_files), results'[i].ret)
    /\ last' = "place"
    /\ UNCHANGED <<new_dirs, new_files, copied>>
    /\ UNCHANGED <<report, image_files, count_stats, run, runClean,
                   report_saved, raised>>

\* ---------------------------------------------------------- RenamerService
\* the date directories the rename and statistics passes visit
DateFolders(D, F) ==
    {d \in ListDir(D, F, <<"score">>) :
        IsDir(D, <<"score", d>>) /\ d # "undetected"}

\* the sub-directories of a date directory
EarFolders(D, F, d) ==
    {e \in ListDir(D, F, <<"score", d>>) : IsDir(D, <<"score", d, e>>)}

\* FolderCount that also counts what the 'undetected' sub-directory holds
FolderCount_all(D, ear_path) ==
    Cardinality({p \in D : /\ Len(p) = Len(ear_path) + 2
                           /\ IsPrefix(ear_path, p)
                           /\ IsDir(D, Parent(p))
                           /\ p[Len(ear_path) + 1] # "cuboid"})

\* folder_count of rename_ear_folders_with_count for one ear directory:
\* the directories inside the sub-directories of ear_path that are named
\* neither 'cuboid' nor 'undetected'
FolderCount(D, ear_path) ==
    Cardinality({p \in D : /\ Len(p) = Len(ear_path) + 2
                           /\ IsPrefix(ear_path, p)
                           /\ IsDir(D, Parent(p))
                           /\ p[Len(ear_path) + 1] # "cuboid"
                           /\ p[Len(ear_path) + 1] # "undetected"})

\* new_name = f"{ear_folder}-{folder_count}"
NewName(ear_folder, folder_count) == ear_folder \o "-" \o IntToStr(folder_count)

\* RenameCalls without the all-digits test on the directory name
RenameCalls_anyname(D, F) ==
    UNION {{<<d, e>> : e \in {x \in EarFolders(D, F, d) :
                                 FolderCount(D, <<"score", d, x>>) > 0}} :
              d \in DateFolders(D, F)}

\* the (date, ear) directories for which the pass calls os.rename
RenameCalls(D, F) ==
    UNION {{<<d, e>> : e \in {x \in EarFolders(D, F, d) :
                                 /\ IsDigit(x)
                                 /\ FolderCount(D, <<"score", d, x>>) > 0}} :
              d \in DateFolders(D, F)}

\* RenamePlan that takes the count from self.ear_folder_counts when the
\* counter has the key
RenamePlan_counter(D, F) ==
    IF ~Exists(D, F, <<"score">>) THEN << >>
    ELSE [de \in RenameCalls(D, F) |->
             NewName(de[2],
                     IF (de[1] \o "_" \o de[2]) \in DOMAIN ear_folder_counts
                     THEN ear_folder_counts[de[1] \o "_" \o de[2]]
                     ELSE FolderCount(D, <<"score", de[1], de[2]>>))]

\* new_name of every os.rename call of the pass
RenamePlan(D, F) ==
    IF ~Exists(D, F, <<"score">>) THEN << >>
    ELSE [de \in RenameCalls(D, F) |->
             NewName(de[2], FolderCount(D, <<"score", de[1], de[2]>>))]

\* os.rename(ear_path, new_path) raises when new_path exists: a renamed
\* directory holds at least one bucket, and no platform replaces a
\* directory that is not empty
RenameBlocked(D, F, plan, de) == Exists(D, F, <<"score", de[1], plan[de]>>)

\* the os.rename calls of a pass that a fault outside the tree
\* (permissions, a directory in use) can make fail
CanFail(D, F, plan) == {de \in DOMAIN plan : ~RenameBlocked(D, F, plan, de)}

\* a path after the renames N (directory -> new name) of the pass
Renamed(N, p) ==
    IF Len(p) >= 3 /\ <<p[2], p[3]>> \in DOMAIN N
    THEN [p EXCEPT ![3] = N[<<p[2], p[3]>>]]
    ELSE p

\* rename_ear_folders_with_count without the try around os.rename: a call
\* that raises ends the pass, here before any other directory is renamed
rename_ear_folders_with_count_abort(D, F, plan, failing) ==
    LET N == IF failing = {}
             THEN [de \in CanFail(D, F, plan) |-> plan[de]]
             ELSE << >>
    IN  [dirs |-> {Renamed(N, p) : p \in D},
         files |-> {Renamed(N, p) : p \in F},
         names |-> N]

\* rename_ear_folders_with_count; failing: the os.rename calls that raise
\* for a reason outside the tree
rename_ear_folders_with_count(D, F, plan, failing) ==
    LET N == [de \in CanFail(D, F, plan) \ failing |-> plan[de]]
    IN  [dirs |-> {Renamed(N, p) : p \in D},
         files |-> {Renamed(N, p) : p \in F},
         names |-> N]

RenameEffect ==
    \E plan \in {RenamePlan(dirs, files)} :
    \E failing \in SUBSET CanFail(dirs, files, plan) :
    \E r \in {rename_ear_folders_with_count(dirs, files, plan, failing)} :
        /\ faults + Cardinality(failing) <= MaxFaults
        /\ faults' = faults + Cardinality(failing)
        /\ dirs' = r.dirs
        /\ files' = r.files
        /\ sidecar_copies' =
              [q \in {Renamed(r.names, k) : k \in DOMAIN sidecar_copies} |->
                  sidecar_copies[CHOOSE k \in DOMAIN sidecar_copies :
                                     Renamed(r.names, k) = q]]
        /\ renameClean' = (failing = {})
        /\ loopClean' = (loopClean /\ r.dirs = dirs)
        /\ last' = "rename"

\* process_directory's call of the rename pass
RenamePass ==
    /\ pc = "rename"
    /\ RenameEffect
    /\ pc' = "stats"
    /\ UNCHANGED <<new_dirs, new_files, copied>>
    /\ UNCHANGED <<report, image_files, ear_folder_counts, success_count,
                   count_stats, i, run, results, runClean, report_saved,
                   raised>>

\* rename_ear_folders_with_count called again on the tree after a run
RenameAgain ==
    /\ pc = "idle"
    /\ last \in {"stats", "rename"}
    /\ RenameEffect
    /\ UNCHANGED <<new_dirs, new_files, copied>>
    /\ UNCHANGED <<report, image_files, ear_folder_counts, success_count,
                   count_stats, pc, i, run, results, runClean, report_saved,
                   raised>>

\* ------------------------------------------------------ StatisticsReporter
StatKeys == {">=2", ">=3", ">=4", ">=5"}

StatThreshold(k) ==
    CASE k = ">=2" -> 2 [] k = ">=3" -> 3 [] k = ">=4" -> 4 [] k = ">=5" -> 5

\* ear_number, folder_count_str = ear_folder.rsplit('-', 1)
RSplitHead(ear_folder) == SubSeq(ear_folder, 1, LastHyphen(ear_folder) - 1)

RSplitTail(ear_folder) ==
    SubSeq(ear_folder, LastHyphen(ear_folder) + 1, Len(ear_folder))

\* the (date, ear folder) directories the statistics pass counts: the name
\* has a hyphen and int() accepts what follows the last one (a string of
\* digits; the signs, blanks and underscores int() also accepts are never
\* written by the rename pass)
Counted(D, F) ==
    UNION {{<<d, e>> : e \in {x \in EarFolders(D, F, d) :
                                 HasHyphen(x) /\ IsDigit(RSplitTail(x))}} :
              d \in DateFolders(D, F)}

CountOf(de) == StrToInt(RSplitTail(de[2]))

\* CountStatsOf with exclusive classes: a directory counts only under the
\* threshold equal to its count
CountStatsOf_exclusive(C) ==
    [k \in StatKeys |->
        Cardinality({de \in C : CountOf(de) = StatThreshold(k)})]

\* count_stats of generate_statistics_report, over the directories C
CountStatsOf(C) ==
    [k \in StatKeys |->
        Cardinality({de \in C : CountOf(de) >= StatThreshold(k)})]

CountStats(D, F) == CountStatsOf(Counted(D, F))

\* the orders in which os.listdir can return the entries S
RECURSIVE Listings(_)
Listings(S) ==
    IF S = {} THEN {<< >>}
    ELSE UNION {{<<x>> \o L : L \in Listings(S \ {x})} : x \in S}

\* detailed_stats[date_folder] after the directories L of the date, taken
\* in that order: a dict keeps its keys in the order they were inserted,
\* so it is a sequence of <<ear_number, folder_count>>, and
\* 'if ear_number not in detailed_stats[date_folder]' keeps the first
\* count met for an ear number
RECURSIVE Inserted(_)
Inserted(L) ==
    IF Len(L) = 0 THEN << >>
    ELSE LET before == Inserted(SubSeq(L, 1, Len(L) - 1))
             de == L[Len(L)]
         IN  IF \E k \in 1..Len(before) : before[k][1] = RSplitHead(de[2])
             THEN before
             ELSE Append(before, <<RSplitHead(de[2]), CountOf(de)>>)

\* the values detailed_stats[d] can take, one per order of the listing
DetailedFor(C, d) == {Inserted(L) : L \in Listings({x \in C : x[1] = d})}

\* the values detailed_stats can take over the date directories S: one
\* entry per date directory, 'detailed_stats[date_folder] = {}' included
RECURSIVE DetailedOver(_, _)
DetailedOver(C, S) ==
    IF S = {} THEN {<< >>}
    ELSE LET d == CHOOSE x \in S : TRUE
         IN  {(d :> v) @@ g : v \in DetailedFor(C, d),
                              g \in DetailedOver(C, S \ {d})}

\* the values detailed_stats can take
DetailedStats(D, F, C) == DetailedOver(C, DateFolders(D, F))

\* sorted(items, key=lambda x: x[1], reverse=True): the sort is stable,
\* items of one count stay in the order of the dict
SortedEars(items) ==
    LET Before(j, m) ==
            \/ items[j][2] > items[m][2]
            \/ items[j][2] = items[m][2] /\ j < m
        Rank(m) == 1 + Cardinality({j \in 1..Len(items) : Before(j, m)})
    IN  [p \in 1..Len(items) |->
            items[CHOOSE m \in 1..Len(items) : Rank(m) = p]]

\* total_ears of _format_statistics_report:
\* sum(len(ears) for ears in detailed_stats.values()), over the dates S
RECURSIVE SumEars(_, _)
SumEars(detailed_stats, S) ==
    IF S = {} THEN 0
    ELSE LET d == CHOOSE x \in S : TRUE
         IN  Len(detailed_stats[d]) + SumEars(detailed_stats, S \ {d})

\* the content _format_statistics_report gives the report: the totals, for
\* each date (the dates come sorted) the lines of its ear numbers, and the
\* two numbers of the summary
FormatReport(stats, detailed_stats) ==
    [count_stats |-> stats,
     lines |-> [d \in DOMAIN detailed_stats |-> SortedEars(detailed_stats[d])],
     total_ears |-> SumEars(detailed_stats, DOMAIN detailed_stats),
     total_dates |-> Cardinality(DOMAIN detailed_stats)]

\* generate_statistics_report returning the counts it started from when
\* the file was not written
ReturnedCounts_saved(stats, written) ==
    IF written THEN stats ELSE [k \in DOMAIN stats |-> 0]

\* 'return count_stats' after the try/except around the write
ReturnedCounts(stats, written) == stats

\* the keys _display_count_statistics reads
DisplayKeys == {">2", ">3", ">4", ">5"}

\* _display_count_statistics: 'if not count_stats: return', then
\* count_stats[key] for each key it prints
DisplayRaises(stats) ==
    /\ DOMAIN stats # {}
    /\ \E k \in DisplayKeys : k \notin DOMAIN stats

\* generate_statistics_report() and _display_count_statistics(count_stats),
\* the last two calls of process_directory; written: does the write of
\* statistics_report.txt succeed?
StatsPass ==
    /\ pc = "stats"
    /\ \E C \in {Counted(dirs, files)} :
       \E stats \in {CountStatsOf(C)} :
       \E detailed_stats \in DetailedStats(dirs, files, C), written \in BOOLEAN :
         /\ faults + (IF written THEN 0 ELSE 1) <= MaxFaults
         /\ faults' = faults + (IF written THEN 0 ELSE 1)
         /\ report' = IF written
                      THEN FormatReport(stats, detailed_stats)
                      ELSE report
         /\ report_saved' = written
         /\ count_stats' = ReturnedCounts(stats, written)
         /\ raised' = IF DisplayRaises(ReturnedCounts(stats, written))
                      THEN "KeyError"
                      ELSE "none"
    /\ runClean' = (faults' = 0)
    /\ pc' = "idle"
    /\ last' = "stats"
    /\ UNCHANGED <<new_dirs, new_files, copied>>
    /\ UNCHANGED <<dirs, files, image_files, ear_folder_counts, success_count,
                   i, run, results, sidecar_copies, loopClean, renameClean>>

\* generate_statistics_report called again on the tree after a run
StatsAgain ==
    /\ pc = "idle"
    /\ last \in {"stats", "report"}
    /\ \E C \in {Counted(dirs, files)} :
       \E stats \in {CountStatsOf(C)} :
       \E detailed_stats \in DetailedStats(dirs, files, C), written \in BOOLEAN :
         /\ faults + (IF written THEN 0 ELSE 1) <= MaxFaults
         /\ faults' = faults + (IF written THEN 0 ELSE 1)
         /\ report' = IF written
                      THEN FormatReport(stats, detailed_stats)
                      ELSE report
         /\ report_saved' = written
         /\ count_stats' = ReturnedCounts(stats, written)
    /\ last' = "report"
    /\ UNCHANGED <<new_dirs, new_files, copied>>
    /\ UNCHANGED <<dirs, files, image_files, ear_folder_counts, success_count,
                   pc, i, run, results, sidecar_copies, loopClean,
                   renameClean, runClean, raised>>

\* ------------------------------------------------- HighCountEarCopier
\* self.min_count
min_count == 2

\* HighCount with 'folder_count > self.min_count'
HighCount_above(D, F) == {de \in Counted(D, F) : CountOf(de) > min_count}

\* the (date, ear folder) directories copy_high_count_ears selects: a name
\* with a hyphen, int() of what follows the last one, and
\* 'folder_count >= self.min_count'
HighCount(D, F) == {de \in Counted(D, F) : CountOf(de) >= min_count}

\* f"{date_folder}_{ear_folder}"
TargetName(de) == de[1] \o "_" \o de[2]

\* what shutil.copytree of a directory of the score tree achieves: "ok",
\* "nodst" (it fails before the target is created) or "empty" (the target
\* is created and the copy stops there)
HighOutcomes == {"ok", "nodst", "empty"}

\* the directories and files a copy of src to new/<name> writes
CopiedDirs(D, src, name, kind) ==
    IF kind = "nodst" THEN {}
    ELSE {<<name>>} \cup
           (IF kind = "ok" THEN {<<name>> \o r : r \in Below(D, src)} ELSE {})

CopiedFiles(F, src, name, kind) ==
    IF kind = "ok" THEN {<<name>> \o r : r \in Below(F, src)} ELSE {}

\* copy_high_count_ears() of HighCountEarCopier(<root>/score, "new"), run
\* on the tree the runs of process_directory have left (no run reads
\* root/new, so the copies are taken after the last run): os.makedirs of
\* root/new, the copy of score/undetected, and for every selected directory
\* whose target does not exist a copytree; out gives what each copytree
\* achieves
CopyHighCount ==
    /\ pc = "idle"
    /\ run = MaxRuns
    /\ last \in {"stats", "report", "copy"}
    /\ IsDir(dirs, <<"score">>)
    /\ \E todo \in {{de \in HighCount(dirs, files) :
                       ~Exists(new_dirs, new_files, <<TargetName(de)>>)}} :
       \E und \in {IF IsDir(dirs, <<"score", "undetected">>)
                      /\ ~Exists(new_dirs, new_files, <<"undetected">>)
                   THEN {"undetected"} ELSE {}} :
       \E out \in [todo -> HighOutcomes] :
       \E nf \in {Cardinality({de \in todo : out[de] # "ok"})} :
         /\ faults + nf <= MaxFaults
         /\ faults' = faults + nf
         /\ new_dirs' = new_dirs \cup {<< >>}
               \cup UNION {CopiedDirs(dirs, <<"score", de[1], de[2]>>,
                                      TargetName(de), out[de]) : de \in todo}
               \cup UNION {CopiedDirs(dirs, <<"score", u>>, u, "ok") :
                              u \in und}
         /\ new_files' = new_files
               \cup UNION {CopiedFiles(files, <<"score", de[1], de[2]>>,
                                       TargetName(de), out[de]) : de \in todo}
               \cup UNION {CopiedFiles(files, <<"score", u>>, u, "ok") :
                              u \in und}
         /\ copied' = {de \in todo : out[de] = "ok"}
    /\ last' = "copy"
    /\ UNCHANGED <<dirs, files, report, image_files, ear_folder_counts,
                   success_count, count_stats, pc, i, run, results,
                   sidecar_copies, loopClean, renameClean, runClean,
                   report_saved, raised>>

\* KeyboardInterrupt during a run (main.py catches it and exits)
Interrupt ==
    /\ pc # "idle"
    /\ faults < MaxFaults
    /\ faults' = faults + 1
    /\ pc' = "idle"
    /\ runClean' = FALSE
    /\ last' = "interrupt"
    /\ raised' = "KeyboardInterrupt"
    /\ UNCHANGED <<new_dirs, new_files, copied>>
    /\ UNCHANGED <<dirs, files, report, image_files, ear_folder_counts,
                   success_count, count_stats, i, run, results,
                   sidecar_copies, loopClean, renameClean, report_saved>>

Next ==
    \/ StartRun
    \/ Place
    \/ RenamePass
    \/ RenameAgain
    \/ StatsPass
    \/ StatsAgain
    \/ CopyHighCount
    \/ Interrupt

Spec == Init /\ [][Next]_vars

\* process_directory on a root with one item folder
SpecBucket == BucketInit /\ [][Next]_vars

\* a score tree left by earlier runs over other item folders: the renamed
\* directories (date, ear number, count) it can hold
D2 == "2025-06-22"

EarlierSubjects ==
    {[date |-> D1, ear |-> "10", count |-> 5],
     [date |-> D1, ear |-> "10", count |-> 1],
     [date |-> D1, ear |-> "11", count |-> 3],
     [date |-> D1, ear |-> "12", count |-> 1],
     [date |-> D2, ear |-> "10", count |-> 2],
     [date |-> D2, ear |-> "12", count |-> 4]}

\* the k-th item folder of a subject, and where an earlier run left it
EarlierLeaf(t, k) ==
    <<"score", t.date, NewName(t.ear, t.count), "80",
      "000000" \o t.ear \o "-" \o t.date \o "-10-41-09-00" \o DigitChar(k)>>

EarlierDirs(S) ==
    UNION {UNION {{SubSeq(EarlierLeaf(t, k), 1, n) : n \in 1..5}
                    \cup {EarlierLeaf(t, k) \o r : r \in SrcDirs} :
                  k \in 1..t.count} : t \in S}

EarlierFiles(S) ==
    UNION {UNION {{EarlierLeaf(t, k) \o r : r \in SrcFiles} :
                  k \in 1..t.count} : t \in S}

\* a root whose score tree was left by earlier runs, and one item folder
\* to process
StatsInit ==
    /\ image_files =
          <<[sub |-> "A", folder |-> "00000010-2025-06-21-12-30-00-002",
             confidence |-> 670]>>
    /\ \E S \in SUBSET EarlierSubjects :
         /\ dirs = EarlierDirs(S)
         /\ files = EarlierFiles(S)
    /\ report = "none"
    /\ ear_folder_counts = << >>
    /\ success_count = 0
    /\ count_stats = << >>
    /\ pc = "idle"
    /\ i = 1
    /\ run = 0
    /\ faults = 0
    /\ results = << >>
    /\ sidecar_copies = << >>
    /\ last = "init"
    /\ loopClean = FALSE
    /\ renameClean = FALSE
    /\ runClean = FALSE
    /\ report_saved = FALSE
    /\ raised = "none"
    /\ new_dirs = {}
    /\ new_files = {}
    /\ copied = {}

\* process_directory on a root that holds the tree of earlier runs
SpecStats == StatsInit /\ [][Next]_vars

\* ------------------------------------------------------ folder names
\* k zeros
RECURSIVE Zeros(_)
Zeros(k) == IF k = 0 THEN "" ELSE "0" \o Zeros(k - 1)

\* subject numbers as digit strings
SubjectDigits == {"0", "7", "10", "101"}

\* the name of an item folder: <zeros><subject>-<date>-<time>-<ordinal>
WellFormed(k, d, date) == Zeros(k) \o d \o "-" \o date \o "-10-41-09-066"

WellFormedNames ==
    {WellFormed(k, d, D1) : k \in 0..MaxZeros, d \in SubjectDigits}
      \cup {"00000101-2025-06-22-13-57-51-584"}

\* item folder names that are not of that form
MalformedNames ==
    {"00000010-2025-06-21",
     "00000010-2025-6-21-10-41-09-066",
     "A0000010-2025-06-21-10-41-09-066",
     "-2025-06-21-10-41-09-066",
     "00000010-2025-06-21-10-41-09-066-7",
     "00000010-2025-06-21-10-41-09-",
     "00000010_2025-06-21-10-41-09-066",
     "unknown"}

\* confidences in the buckets undetected, 30, 60 and 100
ParseConfs == {300, 310, 670, 1000}

\* names found in two sub-directories of the root
TwinNames == {"0010-2025-06-21-10-41-09-066", "00000010-2025-06-21"}

\* scans of a root with one item folder, or the same folder name in two
\* sub-directories
ParseScans ==
    {<<[sub |-> "A", folder |-> n, confidence |-> c]>> :
        n \in WellFormedNames \cup MalformedNames, c \in ParseConfs}
      \cup
    {<<[sub |-> "A", folder |-> n, confidence |-> c[1]],
       [sub |-> "B", folder |-> n, confidence |-> c[2]]>> :
        n \in TwinNames, c \in ParseConfs \X ParseConfs}

ParseInit ==
    /\ image_files \in ParseScans
    /\ dirs = {}
    /\ files = {}
    /\ report = "none"
    /\ ear_folder_counts = << >>
    /\ success_count = 0
    /\ count_stats = << >>
    /\ pc = "idle"
    /\ i = 1
    /\ run = 0
    /\ faults = 0
    /\ results = << >>
    /\ sidecar_copies = << >>
    /\ last = "init"
    /\ loopClean = FALSE
    /\ renameClean = FALSE
    /\ runClean = FALSE
    /\ report_saved = FALSE
    /\ raised = "none"
    /\ new_dirs = {}
    /\ new_files = {}
    /\ copied = {}

\* process_directory on roots whose item folders carry those names
SpecParse == ParseInit /\ [][Next]_vars

\* ================================================================ claims

\* C1: once a placement loop over image_files has completed with no failed
\* copy and no directory was renamed since (loopClean), running the loop
\* again over the same folders leaves the tree as it was: the start of the
\* run creates nothing, every copy_folder call takes the 'target exists'
\* path and returns TRUE, and nothing is copied.
C1_SecondLoopSkips ==
    [][(loopClean /\ pc \in {"idle", "loop"} /\ pc' # "idle") =>
          /\ dirs' = dirs
          /\ files' = files
          /\ pc = "loop" =>
                /\ results'[Len(results')].how = "skipped"
                /\ results'[Len(results')].ret]_vars

\* a second loop has run to its end over folders of which one is in a
\* numeric bucket, and every call of it skipped
C1_Witness ==
    /\ run = 2
    /\ pc = "rename"
    /\ loopClean
    /\ Len(results) = Len(image_files)
    /\ \A k \in 1..Len(results) : results[k].how = "skipped"
    /\ \E k \in 1..Len(image_files) :
          ScoreFolder(image_files[k].confidence) # "undetected"

\* C2: re-invoking the engine on a tree that a complete run without fault
\* over the same source folders already placed and renamed (runClean)
\* leaves the score tree unchanged, and no date directory holds both
\* '<subject>' and '<subject>-<count>'.
C2_ReinvokeUnchanged ==
    [][runClean =>
          /\ dirs' = dirs
          /\ files' = files
          /\ \A p \in dirs', q \in dirs' :
                ~(/\ Len(p) = 3 /\ Len(q) = 3 /\ p[2] = q[2]
                  /\ IsDigit(p[3])
                  /\ HasHyphen(q[3])
                  /\ SubSeq(q[3], 1, Len(p[3]) + 1) = p[3] \o "-")]_vars

\* C3: a rename pass that follows a rename pass without rename fault, with
\* nothing placed in between, leaves the tree unchanged; no pass renames a
\* directory whose name has a hyphen, and no subject directory ever has a
\* name with two hyphens ('10-5-5').
C3_RenameIdempotent ==
    [][/\ last' = "rename" =>
            /\ \A p \in dirs : (Len(p) = 3 /\ HasHyphen(p[3])) => p \in dirs'
            /\ renameClean => (dirs' = dirs /\ files' = files)
       /\ \A p \in dirs' : Len(p) = 3 => Len(SplitHyphen(p[3])) <= 2]_vars

\* a pass called after a run without fault, whose own pass renamed a
\* directory
C3_Witness ==
    /\ renameClean
    /\ runClean
    /\ pc = "idle"
    /\ last = "rename"
    /\ \E p \in dirs : Len(p) = 3 /\ HasHyphen(p[3]) /\ IsDigit(RSplitTail(p[3]))

\* C4: at every point of the placement loop, the counter of every
\* (date, subject) key equals the number of copy_folder calls of this run
\* that returned TRUE for a target in a numeric bucket of that key: a call
\* that fails and a placement into 'undetected' add nothing.
C4_CounterCountsSuccesses ==
    \A k \in 1..Len(results) :
        LET key == CounterKey(image_files[k].folder)
            counter == IF key \in DOMAIN ear_folder_counts
                       THEN ear_folder_counts[key] ELSE 0
        IN  counter =
              Cardinality({j \in 1..Len(results) :
                  /\ results[j].ret
                  /\ ScoreFolder(image_files[j].confidence) # "undetected"
                  /\ CounterKey(image_files[j].folder) = key})

\* C5: when the placement loop of the first run, started on a score
\* directory with nothing in it, has ended with no I/O fault, the counter
\* of every (date, subject) equals the count the rename pass computes
\* from the disk for that subject directory.
C5_CounterEqualsDiskCount ==
    (pc = "rename" /\ run = 1 /\ faults = 0 /\ CuboidFile \notin files) =>
        \A k \in 1..Len(image_files) :
            LET info == extract_folder_info(image_files[k].folder)
                key == CounterKey(image_files[k].folder)
                counter == IF key \in DOMAIN ear_folder_counts
                           THEN ear_folder_counts[key] ELSE 0
            IN  counter = FolderCount(dirs, <<"score", info.date_str,
                                              info.ear_number>>)

\* C6: no side-car directory of a subject directory is ever copied into
\* more than once; while score/<date>/cuboid exists and no I/O fault has
\* happened, once two placements of this run for the same (date, subject)
\* have returned TRUE the side-car has been copied into
\* score/<date>/<subject>/cuboid exactly once; and while score/<date>/cuboid
\* does not exist, no subject directory of that date holds a cuboid
\* directory.
C6_SidecarOnce ==
    /\ \A dst \in DOMAIN sidecar_copies : sidecar_copies[dst] <= 1
    /\ (faults = 0 /\ pc \in {"loop", "rename"}) =>
          \A j \in 1..Len(results), k \in 1..Len(results) :
              LET tj == TargetPath(image_files[j].folder,
                                   image_files[j].confidence)
                  tk == TargetPath(image_files[k].folder,
                                   image_files[k].confidence)
              IN  (/\ j < k
                   /\ tj # tk
                   /\ CuboidDst(tj) = CuboidDst(tk)
                   /\ results[j].ret /\ results[k].ret
                   /\ IsDir(dirs, CuboidSrc(tj)))
                  => /\ CuboidDst(tj) \in dirs
                     /\ CuboidDst(tj) \in DOMAIN sidecar_copies
                     /\ sidecar_copies[CuboidDst(tj)] = 1
    /\ \A p \in dirs :
          (Len(p) = 4 /\ p[4] = "cuboid") => <<"score", p[2], "cuboid">> \in dirs

\* two distinct folders of one subject and date have been placed, the date
\* has a side-car, and the subject directory holds its one copy
C6_Witness ==
    /\ pc = "rename"
    /\ faults = 0
    /\ Len(results) = 2
    /\ results[1].how = "copied" /\ results[2].how = "copied"
    /\ CuboidFile \in files
    /\ \E dst \in DOMAIN sidecar_copies :
          /\ sidecar_copies[dst] = 1
          /\ dst = CuboidDst(TargetPath(image_files[1].folder,
                                        image_files[1].confidence))
          /\ dst = CuboidDst(TargetPath(image_files[2].folder,
                                        image_files[2].confidence))
          /\ dst \o <<"cuboid.json">> \in files

\* C7: every copy_folder call that returns TRUE with no I/O failure during
\* the call, the 'target exists' skip included, leaves
\* score/<date>/<subject>/cuboid in place when score/<date>/cuboid exists
\* (stated for the first placement a run makes for a target).
C7_SidecarOnEveryPlacement ==
    [][(pc = "loop" /\ last' = "place" /\ faults' = faults) =>
          LET target == TargetPath(image_files[i].folder,
                                   image_files[i].confidence)
          IN  (/\ \A j \in 1..(i - 1) :
                     TargetPath(image_files[j].folder,
                                image_files[j].confidence) # target
               /\ results'[Len(results')].ret
               /\ IsDir(dirs, CuboidSrc(target)))
                  => CuboidDst(target) \in dirs']_vars

\* C8: the first placement a run makes for a target, when it meets no I/O
\* failure, leaves the target holding every file and sub-directory of the
\* source folder, also when the placement of the same folder in an earlier
\* run failed mid-copy and left the target partially written.
C8_RerunCompletesTarget ==
    [][(pc = "loop" /\ last' = "place" /\ faults' = faults) =>
          LET target == TargetPath(image_files[i].folder,
                                   image_files[i].confidence)
          IN  (\A j \in 1..(i - 1) :
                     TargetPath(image_files[j].folder,
                                image_files[j].confidence) # target)
                  => /\ target \in dirs'
                     /\ \A r \in SrcDirs : target \o r \in dirs'
                     /\ \A r \in SrcFiles : target \o r \in files']_vars

\* C9: in a rename pass in which no os.rename call fails (none for an
\* outside fault, none because its new name is taken), every directory p of
\* a date directory other than 'undetected', with count the number of
\* directories inside the sub-directories of p not named 'cuboid' or
\* 'undetected': if the name of p is all digits and count > 0, p and all it
\* holds are found under '<name>-<count>' and p is gone; otherwise p and
\* all it holds stay as they are.
C9_RenamePass ==
    [][(last' = "rename" /\ faults' = faults) =>
          \A p \in {x \in dirs : Len(x) = 3 /\ x[2] # "undetected"} :
              LET count == Cardinality({q \in dirs :
                               /\ Len(q) = 5
                               /\ SubSeq(q, 1, 3) = p
                               /\ q[4] \notin {"cuboid", "undetected"}})
                  new == [p EXCEPT ![3] = p[3] \o "-" \o IntToStr(count)]
                  held == {q \in dirs \cup files : IsPrefix(p, q)}
              IN  IF IsDigit(p[3]) /\ count > 0
                  THEN \/ new \in dirs \cup files
                       \/ /\ p \notin dirs'
                          /\ \A q \in held :
                                [q EXCEPT ![3] = new[3]] \in
                                    (IF q \in dirs THEN dirs' ELSE files')
                  ELSE \A q \in held :
                          q \in (IF q \in dirs THEN dirs' ELSE files')]_vars

\* the rename pass of a run without fault has renamed a subject directory
\* that held a numeric bucket and an 'undetected' one
C9_Witness ==
    /\ pc = "stats"
    /\ last = "rename"
    /\ faults = 0
    /\ \E p \in dirs :
          /\ Len(p) = 4
          /\ p[4] = "undetected"
          /\ HasHyphen(p[3])
          /\ RSplitTail(p[3]) = "1"
          /\ IsDigit(RSplitHead(p[3]))

\* C10: in a first run without fault in which one (date, subject) gets
\* exactly one folder with confidence above 0.3 and one with confidence at
\* or below 0.3: after the placement loop both targets exist (for 0.82 and
\* 0.05: score/<date>/<subject>/80/<name1> and
\* score/<date>/<subject>/undetected/<name2>) and the counter of the key is
\* 1; after the rename pass the subject directory is '<subject>-1'; after
\* the statistics pass the '>=2' total counts no directory of that subject.
C10_EndToEnd ==
    (run = 1 /\ faults = 0) =>
      \A a \in 1..Len(image_files), b \in 1..Len(image_files) :
        LET fa == image_files[a].folder
            fb == image_files[b].folder
            ca == image_files[a].confidence
            cb == image_files[b].confidence
            info == extract_folder_info(fa)
            ear == <<"score", info.date_str, info.ear_number>>
            ear1 == <<"score", info.date_str, info.ear_number \o "-1">>
        IN  (/\ PatternMatches(fa)
             /\ ca > Threshold
             /\ cb <= Threshold
             /\ \A k \in 1..Len(image_files) :
                  CounterKey(image_files[k].folder) = CounterKey(fa)
                      <=> k \in {a, b})
            => /\ pc = "rename" =>
                    /\ TargetPath(fa, ca) \in dirs
                    /\ TargetPath(fb, cb) \in dirs
                    /\ TargetPath(fb, cb)[4] = "undetected"
                    /\ (ca = 820) => TargetPath(fa, ca) = ear \o <<"80", fa>>
                    /\ ear_folder_counts[CounterKey(fa)] = 1
               /\ pc = "stats" => (ear1 \in dirs /\ ear \notin dirs)
               /\ (pc = "idle" /\ last = "stats") =>
                    /\ ear1 \in dirs
                    /\ count_stats[">=2"] =
                         Cardinality({p \in dirs :
                            /\ Len(p) = 3
                            /\ p # ear1
                            /\ HasHyphen(p[3])
                            /\ IsDigit(RSplitTail(p[3]))
                            /\ StrToInt(RSplitTail(p[3])) >= 2})

\* the run of the folders with confidence 0.82 and 0.05 of subject 10 has
\* ended without fault
C10_Witness ==
    /\ run = 1
    /\ faults = 0
    /\ pc = "idle"
    /\ last = "stats"
    /\ Len(image_files) = 2
    /\ image_files[1].confidence = 820
    /\ image_files[2].confidence = 50
    /\ <<"score", D1, "10-1", "80", image_files[1].folder>> \in dirs
    /\ <<"score", D1, "10-1", "undetected", image_files[2].folder>> \in dirs
    /\ count_stats[">=2"] = 0

\* C11: whatever the confidence, 1.0 included, every bucket directory
\* process_image_folder places a folder in is named 'undetected' or a
\* multiple of 10 from 0 to 90.
C11_BucketClamped ==
    \A p \in dirs :
        Len(p) = 5 =>
            p[4] \in {"undetected"} \cup {IntToStr(10 * k) : k \in 0..9}

\* C12: the folder is found under 'undetected' exactly when its confidence
\* is at most 0.3 (0.3 and 0.0 included), and for a confidence above 0.3 and
\* below 1.0 under the bucket 10 * floor(10 * confidence): 0.31 under 30,
\* 0.99 under 90.
C12_BucketOfConfidence ==
    \A p \in dirs :
        Len(p) = 5 =>
            LET c == image_files[1].confidence
            IN  /\ (p[4] = "undetected") <=> (c <= 300)
                /\ (300 < c /\ c < 1000) => p[4] = IntToStr(10 * (c \div 100))
                /\ c \in {0, 300} => p[4] = "undetected"
                /\ c = 310 => p[4] = "30"
                /\ c = 990 => p[4] = "90"

\* the folder with confidence 0.31 has been placed in bucket 30
C12_Witness ==
    /\ image_files[1].confidence = 310
    /\ Len(results) = 1
    /\ results[1].how = "copied"
    /\ \E p \in dirs : Len(p) = 5 /\ p[4] = "30"

\* C13: the counts generate_statistics_report returns are, for each
\* threshold t of 2, 3, 4, 5, the number of directories
\* score/<date>/<subject>-<count> (date 'undetected' and names without a
\* '-<digits>' suffix left out) with count >= t; a directory with count 5
\* is counted under all four, and the four counts never increase with t.
C13_CumulativeCounts ==
    (pc = "idle" /\ last = "stats") =>
        LET AtLeast(t) ==
                Cardinality({p \in dirs :
                    /\ Len(p) = 3
                    /\ p[2] # "undetected"
                    /\ HasHyphen(p[3])
                    /\ IsDigit(RSplitTail(p[3]))
                    /\ StrToInt(RSplitTail(p[3])) >= t})
        IN  /\ count_stats[">=2"] = AtLeast(2)
            /\ count_stats[">=3"] = AtLeast(3)
            /\ count_stats[">=4"] = AtLeast(4)
            /\ count_stats[">=5"] = AtLeast(5)
            /\ count_stats[">=2"] >= count_stats[">=3"]
            /\ count_stats[">=3"] >= count_stats[">=4"]
            /\ count_stats[">=4"] >= count_stats[">=5"]
            /\ (\E p \in dirs : Len(p) = 3 /\ p[3] = "10-5") =>
                  \A k \in StatKeys : count_stats[k] >= 1

\* the statistics pass has counted a tree that holds a directory with
\* count 5 and directories with smaller counts
C13_Witness ==
    /\ pc = "idle"
    /\ last = "stats"
    /\ <<"score", D1, "10-5">> \in dirs
    /\ count_stats[">=5"] = 1
    /\ count_stats[">=4"] = 2
    /\ count_stats[">=3"] = 3
    /\ count_stats[">=2"] = 4

\* C14: a copy_folder call whose target path exists changes nothing in the
\* tree, under the target or elsewhere, and returns TRUE.
C14_SkipIsNoOp ==
    [][(pc = "loop" /\ last' = "place") =>
          LET target == TargetPath(image_files[i].folder,
                                   image_files[i].confidence)
          IN  Exists(dirs, files, target) =>
                 /\ dirs' = dirs
                 /\ files' = files
                 /\ results'[Len(results')].ret]_vars

\* a call was skipped on a target that a failed copy had left without its
\* files, on a date that has a side-car the subject does not have
C14_Witness ==
    /\ last = "place"
    /\ Len(results) >= 1
    /\ results[Len(results)].how = "skipped"
    /\ CuboidFile \in files
    /\ \E k \in 1..Len(image_files) :
          LET target == TargetPath(image_files[k].folder,
                                   image_files[k].confidence)
          IN  /\ target \in dirs
              /\ \E r \in SrcFiles : target \o r \notin files
              /\ CuboidSrc(target) \in dirs
              /\ CuboidDst(target) \notin dirs

\* C15: every copy_folder call returns a value: FALSE when creating the
\* parent directories or the main copy meets an I/O failure, and then
\* whatever was written stays on disk; TRUE only when the target existed
\* before the call or the main copy completed; a call removes nothing.
C15_CopyFolderResult ==
    [][(pc = "loop" /\ last' = "place") =>
          LET target == TargetPath(image_files[i].folder,
                                   image_files[i].confidence)
              res == results'[Len(results')]
              complete == /\ target \in dirs'
                          /\ \A r \in SrcDirs : target \o r \in dirs'
                          /\ \A r \in SrcFiles : target \o r \in files'
          IN  /\ Len(results') = Len(results) + 1
              /\ res.ret \in BOOLEAN
              /\ dirs \subseteq dirs'
              /\ files \subseteq files'
              /\ res.ret => (Exists(dirs, files, target) \/ complete)
              /\ ~res.ret => (faults' > faults /\ ~complete
                                /\ ~Exists(dirs, files, target))
              /\ (~Exists(dirs, files, target) /\ ~complete) => ~res.ret]_vars

\* a call has returned FALSE and the target directory it created is still
\* there, without the files of the source
C15_Witness ==
    /\ last = "place"
    /\ Len(results) >= 1
    /\ ~results[Len(results)].ret
    /\ LET target == TargetPath(image_files[Len(results)].folder,
                                image_files[Len(results)].confidence)
       IN  /\ target \in dirs
           /\ \E r \in SrcFiles : target \o r \notin files

C17_EveryRunRenamesOnce ==
    [][/\ pc' = "rename" =>
             (pc = "loop" /\ last' = "place" /\ Len(results') = Len(image_files))
       /\ pc = "rename" => (pc' \in {"stats", "idle"} /\ last' # "place")
       /\ pc' = "stats" => (pc = "rename" /\ last' = "rename")
       /\ pc = "stats" => (pc' = "idle" /\ last' \in {"stats", "interrupt"})
       /\ last' = "place" => pc = "loop"
       /\ (pc' = "idle" /\ (pc # "idle" \/ run' # run) /\ last' # "interrupt")
              => last' = "stats"]_vars

\* C17 amended: in every run that finds at least one pair, the rename pass
\* starts only from the loop, after the last pair was attempted, and is
\* followed by nothing but the statistics pass; the statistics pass starts
\* only after the rename pass and ends the run; no placement happens once
\* the rename pass has started; a run that returns without being
\* interrupted has run each pass exactly once.
C17_PassesInOrder ==
    [][/\ pc' = "rename" =>
             (pc = "loop" /\ last' = "place" /\ Len(results') = Len(image_files))
       /\ pc = "rename" => (pc' \in {"stats", "idle"} /\ last' # "place")
       /\ pc' = "stats" => (pc = "rename" /\ last' = "rename")
       /\ pc = "stats" => (pc' = "idle" /\ last' \in {"stats", "interrupt"})
       /\ last' = "place" => pc = "loop"
       /\ (/\ image_files # << >>
           /\ pc' = "idle" /\ (pc # "idle" \/ run' # run)
           /\ last' # "interrupt")
              => (pc = "stats" /\ last = "rename" /\ last' = "stats")]_vars

\* a run over two pairs has returned from its statistics pass
C17_Witness ==
    /\ pc = "idle"
    /\ last = "stats"
    /\ run = 1
    /\ Len(image_files) = 2
    /\ Len(results) = 2
    /\ success_count = 2

\* C18: every step of the placement loop attempts the next pair of the
\* list, whatever happened to the pairs before it: the step records one
\* result for pair i, a failed pair adds nothing to success_count and does
\* not end the loop, the loop ends only after the last pair, and
\* success_count never exceeds the number of pairs attempted.
C18_BatchNeverAborts ==
    [][(pc = "loop" /\ pc' # "idle") =>
          /\ last' = "place"
          /\ i' = i + 1
          /\ Len(results') = i
          /\ SubSeq(results', 1, i - 1) = results
          /\ success_count' =
                success_count + (IF results'[i].ret THEN 1 ELSE 0)
          /\ success_count' <= i
          /\ i <= Len(image_files)
          /\ pc' = (IF i < Len(image_files) THEN "loop" ELSE "rename")]_vars

\* the copy of the first pair failed, and the second pair, whose name does
\* not parse, was attempted and placed under 'unknown'
C18_Witness ==
    /\ pc = "rename"
    /\ Len(results) = 2
    /\ ~results[1].ret
    /\ results[2].ret
    /\ success_count = 1
    /\ \E p \in dirs : Len(p) = 5 /\ p[2] = "unknown"

\* C19: in a report written by a statistics pass, the subject total is the
\* number of distinct subject identifiers among the renamed directories of
\* all dates, a subject found under several dates counted once, and the
\* date total is the number of date directories.
C19_DistinctTotals ==
    (pc = "idle" /\ last = "stats" /\ faults = 0) =>
        /\ report.total_ears =
              Cardinality({RSplitHead(p[3]) :
                  p \in {q \in dirs : /\ Len(q) = 3
                                      /\ q[2] # "undetected"
                                      /\ HasHyphen(q[3])
                                      /\ IsDigit(RSplitTail(q[3]))}})
        /\ report.total_dates =
              Cardinality({q \in dirs : Len(q) = 2 /\ q[2] # "undetected"})

\* C20: in every rename pass, a subject directory whose os.rename fails
\* (for an outside fault, or because its new name is taken) keeps its
\* all-digits name and all it holds; every other directory the
\* pass has to rename is renamed (as many directories stay as calls
\* failed); and a directory that stayed is one the next pass calls
\* os.rename for again, with the same new name.
C20_RenameFailureKeepsAndRetries ==
    [][last' = "rename" =>
          LET Count(p) == Cardinality({q \in dirs :
                              /\ Len(q) = 5
                              /\ SubSeq(q, 1, 3) = p
                              /\ q[4] \notin {"cuboid", "undetected"}})
              New(p) == [p EXCEPT ![3] = p[3] \o "-" \o IntToStr(Count(p))]
              due == {p \in dirs : /\ Len(p) = 3
                                   /\ p[2] # "undetected"
                                   /\ IsDigit(p[3])
                                   /\ Count(p) > 0
                                   /\ New(p) \notin dirs \cup files}
              taken == {p \in dirs : /\ Len(p) = 3
                                     /\ p[2] # "undetected"
                                     /\ IsDigit(p[3])
                                     /\ Count(p) > 0
                                     /\ New(p) \in dirs \cup files}
              stayed == {p \in due : p \in dirs'}
          IN  /\ taken \subseteq dirs'
              /\ \A p \in stayed \cup taken :
                    /\ p \in stayed => New(p) \notin dirs'
                    /\ \A q \in dirs : IsPrefix(p, q) => q \in dirs'
                    /\ \A q \in files : IsPrefix(p, q) => q \in files'
                    /\ <<p[2], p[3]>> \in DOMAIN RenamePlan(dirs', files')
                    /\ RenamePlan(dirs', files')[<<p[2], p[3]>>] = New(p)[3]
              /\ \A p \in due \ stayed : New(p) \in dirs'
              /\ Cardinality(stayed) = faults' - faults]_vars

\* the rename pass of a first run had two directories to rename on two
\* dates: os.rename failed for one, which is still there under its
\* all-digits name, and the other was renamed
C20_Witness ==
    /\ run = 1
    /\ pc = "stats"
    /\ last = "rename"
    /\ ~renameClean
    /\ \E p \in dirs, q \in dirs :
          /\ Len(p) = 3 /\ Len(q) = 3
          /\ p[2] # q[2]
          /\ IsDigit(p[3])
          /\ \E x \in dirs : Len(x) = 5 /\ SubSeq(x, 1, 3) = p
                             /\ x[4] \notin {"cuboid", "undetected"}
          /\ HasHyphen(q[3])

\* C21: when the write of statistics_report.txt fails,
\* generate_statistics_report still returns the four threshold counts of
\* the tree it read, and the directories and files of the tree are the ones
\* it found.
C21_WriteFailureHarmless ==
    [][(pc = "stats" /\ last' = "stats" /\ ~report_saved') =>
          /\ DOMAIN count_stats' = StatKeys
          /\ count_stats' = CountStats(dirs, files)
          /\ dirs' = dirs
          /\ files' = files]_vars

\* a statistics pass whose write failed has returned counts over a tree
\* that holds renamed directories
C21_Witness ==
    /\ pc = "idle"
    /\ last = "stats"
    /\ ~report_saved
    /\ count_stats[">=2"] >= 1
    /\ \E p \in dirs : Len(p) = 3 /\ p[3] = "10-2"

\* C25: a run that has reached the statistics step has displayed the counts
\* and returned: no exception has left process_directory.
C25_DisplayReturns ==
    (pc = "idle" /\ last = "stats") => raised = "none"

\* C22: for a folder name made of k zeros, a subject number d, a date and
\* the time and ordinal parts, the path process_image_folder returns has d
\* as its subject segment and the date as its date segment, for every k;
\* '00000101-2025-06-22-13-57-51-584' gives subject 101, date 2025-06-22.
C22_SubjectAndDate ==
    [][(pc = "loop" /\ last' = "place") =>
          LET name == image_files[i].folder
              t == results'[i].target
          IN  /\ \A k \in 0..MaxZeros, d \in SubjectDigits :
                    name = WellFormed(k, d, D1) => t[3] = d /\ t[2] = D1
              /\ name = "00000101-2025-06-22-13-57-51-584" =>
                    t[3] = "101" /\ t[2] = D2]_vars

\* a folder whose name has two zeros before 101 was copied below subject
\* 101 of its date
C22_Witness ==
    /\ last = "place"
    /\ Len(results) = 1
    /\ results[1].how = "copied"
    /\ image_files[1].folder = WellFormed(2, "101", D1)
    /\ <<"score", D1, "101", "60", WellFormed(2, "101", D1)>> \in dirs

\* C23: a folder whose name is not of the form is given subject 'unknown'
\* and date 'unknown', and its placement goes on: the path returned is
\* score/unknown/unknown/<bucket>/<name>, and a copy that completes puts
\* the folder there.
C23_UnknownPlaced ==
    [][(pc = "loop" /\ last' = "place"
          /\ image_files[i].folder \in MalformedNames) =>
          LET t == <<"score", "unknown", "unknown",
                     ScoreFolder(image_files[i].confidence),
                     image_files[i].folder>>
          IN  /\ results'[i].target = t
              /\ results'[i].how = "copied" =>
                    t \in dirs' /\ (t \o <<"basicPoint.jpg">>) \in files']_vars

\* a folder whose name lacks the time part was copied into bucket 60 of
\* unknown/unknown
C23_Witness ==
    /\ last = "place"
    /\ Len(results) = 1
    /\ results[1].how = "copied"
    /\ <<"score", "unknown", "unknown", "60", "00000010-2025-06-21">> \in dirs

\* C24: within a run, two calls of process_image_folder for the same folder
\* name and confidence return the same path, whatever the counter holds
\* when each is made, and two calls for the same folder name whose
\* confidences fall in different buckets return paths that differ in the
\* bucket segment and in no other.
C24_PathOfInputsOnly ==
    \A j \in 1..Len(results), k \in 1..Len(results) :
        image_files[j].folder = image_files[k].folder =>
            LET tj == results[j].target
                tk == results[k].target
            IN  /\ image_files[j].confidence = image_files[k].confidence =>
                      tj = tk
                /\ ScoreFolder(image_files[j].confidence)
                      # ScoreFolder(image_files[k].confidence) =>
                      /\ Len(tj) = Len(tk)
                      /\ {n \in 1..Len(tj) : tj[n] # tk[n]} = {4}

\* two folders of one name were placed in one run, in buckets 30 and 60 of
\* the same subject, after the counter had counted the first
C24_Witness ==
    /\ Len(results) = 2
    /\ results[1].how = "copied"
    /\ results[2].how = "copied"
    /\ <<"score", D1, "10", "30", "0010-2025-06-21-10-41-09-066">> \in dirs
    /\ <<"score", D1, "10", "60", "0010-2025-06-21-10-41-09-066">> \in dirs
    /\ ear_folder_counts[D1 \o "_10"] = 2

\* C26: after every step, every directory score/<date>/<subject>-<n> holds
\* exactly n leaf folders in its buckets other than cuboid and undetected;
\* and no os.rename call of a rename pass has an existing directory as its
\* target.
C26_RenamedHoldCount ==
    [][LET HoldCount(D) ==
               \A p \in D :
                   (Len(p) = 3 /\ HasHyphen(p[3])
                      /\ IsDigit(RSplitTail(p[3]))) =>
                       Cardinality({q \in D :
                                       /\ Len(q) = 5
                                       /\ SubSeq(q, 1, 3) = p
                                       /\ q[4] \notin {"cuboid", "undetected"}})
                         = StrToInt(RSplitTail(p[3]))
           plan == RenamePlan(dirs, files)
       IN  /\ HoldCount(dirs')
           /\ last' = "rename" =>
                 \A de \in DOMAIN plan :
                     ~Exists(dirs, files, <<"score", de[1], plan[de]>>)]_vars

\* C27: in a written report, for each threshold t of 2, 3, 4, 5 the total
\* '>=t' is the number of lines of the breakdown by date whose count is at
\* least t.
C27_TotalsMatchBreakdown ==
    (pc = "idle" /\ last = "stats" /\ report_saved) =>
        \A k \in StatKeys :
            report.count_stats[k] =
                Cardinality({dm \in UNION {{<<d, m>> :
                                              m \in 1..Len(report.lines[d])} :
                                           d \in DOMAIN report.lines} :
                    report.lines[dm[1]][dm[2]][2] >= StatThreshold(k)})

\* C28: a report generated again over the tree of the report before it has
\* the content of that report.
C28_ReportOfTreeOnly ==
    [][(pc = "idle" /\ last \in {"stats", "report"} /\ last' = "report"
          /\ report_saved /\ report_saved') =>
          report' = report]_vars

\* C29: a copy_high_count_ears call in which no copy fails leaves below
\* root/new the targets that were there, unchanged, and one target
\* <date>_<subject>-<count> for every directory score/<date>/<subject>-<count>
\* with count >= 2, holding what the directory holds, and no other; and a
\* call made right after such a call, over the same score tree, copies
\* nothing and leaves root/new as it is.
C29_CopiesHighCounts ==
    [][(pc = "idle" /\ last' = "copy" /\ faults' = faults) =>
          LET High == {p \in dirs :
                          /\ Len(p) = 3
                          /\ p[2] # "undetected"
                          /\ HasHyphen(p[3])
                          /\ IsDigit(RSplitTail(p[3]))
                          /\ StrToInt(RSplitTail(p[3])) >= 2}
              Name(p) == p[2] \o "_" \o p[3]
              Top(N) == {q \in N : Len(q) = 1}
              Under(N, q) == {x \in N : Len(x) >= 1 /\ x[1] = q[1]}
          IN  /\ Top(new_dirs') = Top(new_dirs) \cup {<<Name(p)>> : p \in High}
              /\ \A q \in Top(new_dirs) :
                    /\ Under(new_dirs', q) = Under(new_dirs, q)
                    /\ Under(new_files', q) = Under(new_files, q)
              /\ \A p \in High :
                    <<Name(p)>> \notin new_dirs =>
                       /\ Under(new_dirs', <<Name(p)>>) =
                             {<<Name(p)>>} \cup
                             {<<Name(p)>> \o SubSeq(x, 4, Len(x)) :
                                 x \in {y \in dirs : Len(y) > 3
                                          /\ SubSeq(y, 1, 3) = p}}
                       /\ Under(new_files', <<Name(p)>>) =
                             {<<Name(p)>> \o SubSeq(x, 4, Len(x)) :
                                 x \in {y \in files : Len(y) > 3
                                          /\ SubSeq(y, 1, 3) = p}}
              /\ (last = "copy" /\ faults = 0) =>
                    /\ new_dirs' = new_dirs
                    /\ new_files' = new_files
                    /\ copied' = {}]_vars

\* a second call has found the targets of the directories of counts 5 and 2
\* made by the first, beside a directory of count 1 and an unrenamed
\* directory that have no target
C29_Witness ==
    /\ last = "copy"
    /\ faults = 0
    /\ copied = {}
    /\ <<"2025-06-21_10-5", "80">> \in new_dirs
    /\ <<"2025-06-22_10-2">> \in new_dirs
    /\ <<"score", D1, "10-1">> \in dirs
    /\ <<"score", D1, "10">> \in dirs
    /\ {q \in new_dirs : Len(q) = 1} =
          {<<"2025-06-21_10-5">>, <<"2025-06-22_10-2">>}

====
